---------------------------- MODULE Spec2Model ----------------------------
(***************************************************************************)
(* State-machine model of the spacesync-front browser client:              *)
(*   - services/api.ts      : the Remote Service Client (apiService)       *)
(*   - AuthContext.tsx      : the Authenticated-Session Context            *)
(*   - TaskSubmissionPage.tsx : the Task Submission View, ProtectedRoute   *)
(*     and AppRoutes                                                       *)
(* The browser is single threaded: every action below is one event-loop    *)
(* task (an event handler, a timer callback, or the continuation of an     *)
(* awaited fetch) together with the React render and effects it causes.    *)
(* The remote service is external: every response is a nondeterministic    *)
(* input drawn from a small set of fetch outcomes.                         *)
(***************************************************************************)
EXTENDS Integers, Sequences, FiniteSets, TLC

VARIABLES
  localStorage,   \* value under key 'phoneComputeToken', or Null
  userToken,      \* AuthProvider state userToken
  isLoading,      \* AuthProvider state isLoading
  validating,     \* bearer token of the startup validateToken fetch in flight, or Null
  logins,         \* number of login() calls awaiting their fetch
  path,           \* current route: "/" (task view) or "/login"
  code,           \* TaskSubmissionPage state (a sequence of characters)
  file,           \* TaskSubmissionPage state: <<>> or <<file>>
  isSubmitting,   \* TaskSubmissionPage state
  error,          \* TaskSubmissionPage state: Null or a message
  phoneStatus,    \* TaskSubmissionPage state: <<>> or <<status>>
  userTasks,      \* TaskSubmissionPage state: sequence of tasks
  intervalId,     \* TRUE while the polling interval is set
  inflight,       \* bag of the view's requests awaiting a response
  optimistic,     \* history: the latest submission and the polls around it
  tokenOrigin,    \* history: where the token in place came from
  last            \* history: the last handler that ran and what it did

vars == <<localStorage, userToken, isLoading, validating, logins, path,
          code, file, isSubmitting, error, phoneStatus, userTasks,
          intervalId, inflight, optimistic, tokenOrigin, last>>

authVars == <<localStorage, userToken, isLoading, validating, logins, tokenOrigin>>
viewVars == <<code, file, isSubmitting, error, phoneStatus, userTasks,
              intervalId, inflight, optimistic>>

(***************************************************************************)
(* Bounds of the model.                                                    *)
(***************************************************************************)
MaxInFlight == 2   \* view requests awaiting a response at one time
MaxLogins   == 1   \* login() calls awaiting a response at one time
MaxTasks    == 2   \* longest task list kept in the view

Null == "null"

Tokens == {"t1", "t2"}

(***************************************************************************)
(* Values of the data model.                                               *)
(***************************************************************************)
TaskIds == {"a", "b"}
NewTask(id, status) == [id |-> id, status |-> status]
\* The tasks the remote service answers with.
Task == {NewTask("a", "pending"), NewTask("b", "completed")}

RECURSIVE SeqsUpTo(_, _)
SeqsUpTo(S, n) ==
  IF n = 0 THEN {<<>>}
  ELSE LET shorter == SeqsUpTo(S, n - 1)
       IN  shorter \cup {<<x>> \o s : x \in S, s \in {t \in shorter : Len(t) = n - 1}}

Range(s) == {s[i] : i \in 1..Len(s)}

ZeroStatus == [availablePhones |-> 0, busyPhones |-> 0, averageProcessingTime |-> 0]
SomeStatus == [availablePhones |-> 5, busyPhones |-> 3, averageProcessingTime |-> 45000]


(***************************************************************************)
(* Outcome of one fetch as the client sees it: the fetch promise rejects   *)
(* (net = FALSE, a network error carrying `message`), or it resolves with  *)
(* a response whose `ok` flag is the 2xx test and whose body either parses *)
(* as JSON (json = TRUE: `body`, and `message` the body's message field)   *)
(* or makes response.json() reject with `message`.                         *)
(***************************************************************************)
Outcome(net, ok, json, body, message) ==
  [net |-> net, ok |-> ok, json |-> json, body |-> body, message |-> message]

\* The three ways a call fails, with the body `b` a failing server may still send.
Failures(b) == { Outcome(FALSE, FALSE, FALSE, b, "Failed to fetch"),
                 Outcome(TRUE, FALSE, TRUE, b, ""),
                 Outcome(TRUE, FALSE, FALSE, b, "Unexpected token") }

Failed(o) == ~o.net \/ ~o.ok

LoginBody(success, token) == [success |-> success, token |-> token]

\* The remote service reports a successful login: a 2xx JSON answer saying so.
Reported(o) == o.net /\ o.ok /\ o.json /\ o.body.success

LoginOutcomes ==
  Failures(LoginBody(FALSE, Null))
    \cup { Outcome(TRUE, FALSE, TRUE, LoginBody(TRUE, "t1"), "Invalid credentials"),
           Outcome(TRUE, TRUE, FALSE, LoginBody(FALSE, Null), "Unexpected token"),
           Outcome(TRUE, TRUE, TRUE, LoginBody(FALSE, Null), "Invalid credentials") }
    \cup { Outcome(TRUE, TRUE, TRUE, LoginBody(TRUE, t), "") : t \in Tokens }

ValidateOutcomes ==
  { Outcome(FALSE, FALSE, FALSE, Null, "Failed to fetch"),
    Outcome(TRUE, FALSE, TRUE, Null, ""),
    Outcome(TRUE, TRUE, TRUE, Null, "") }

StatusOutcomes ==
  Failures(SomeStatus)
    \cup { Outcome(TRUE, TRUE, FALSE, SomeStatus, "Unexpected token"),
           Outcome(TRUE, TRUE, TRUE, SomeStatus, "") }

ATask == NewTask("b", "completed")

TasksOutcomes ==
  Failures(<<ATask>>)
    \cup { Outcome(TRUE, TRUE, FALSE, <<ATask>>, "Unexpected token") }
    \cup { Outcome(TRUE, TRUE, TRUE, l, "") : l \in SeqsUpTo(Task, MaxTasks - 1) }

SubmitOutcomes ==
  { Outcome(FALSE, FALSE, FALSE, ATask, "Failed to fetch"),
    Outcome(FALSE, FALSE, FALSE, ATask, ""),
    Outcome(TRUE, FALSE, TRUE, ATask, ""),
    Outcome(TRUE, FALSE, TRUE, ATask, "Quota exceeded"),
    Outcome(TRUE, TRUE, FALSE, ATask, "Unexpected token") }
    \cup { Outcome(TRUE, TRUE, TRUE, t, "") : t \in Task }

(***************************************************************************)
(* apiService (services/api.ts).  Each operation is a function of the      *)
(* fetch outcome: it either returns `value` or throws an Error carrying    *)
(* `message` (threw = TRUE).                                               *)
(***************************************************************************)
Returns(v) == [threw |-> FALSE, value |-> v, message |-> ""]
Throws(v, m) == [threw |-> TRUE, value |-> v, message |-> m]

\* a || b on strings: the empty string is falsy
OrElse(a, b) == IF a = "" THEN b ELSE a

\* Faulty variant of login: the response status is not looked at.
apiLoginIgnoresStatus(o) ==
  IF ~o.net \/ ~o.json
    THEN Returns(LoginBody(FALSE, Null))
  ELSE Returns(o.body)

apiLogin(o) ==
  IF ~o.net \/ ~o.json
    THEN Returns(LoginBody(FALSE, Null))       \* fetch or response.json() rejected
  ELSE IF ~o.ok
    THEN Returns(LoginBody(FALSE, Null))       \* thrown and caught: {success: false}
  ELSE Returns(o.body)

\* Faulty variant of validateToken: a network error is taken for a valid token.
apiValidateTokenFailOpen(token, o) ==
  IF token = Null THEN Returns(FALSE)
  ELSE IF ~o.net THEN Returns(TRUE)
  ELSE IF ~o.ok THEN Returns(FALSE)
  ELSE Returns(TRUE)

apiValidateToken(token, o) ==
  IF token = Null THEN Returns(FALSE)
  ELSE IF ~o.net THEN Returns(FALSE)
  ELSE IF ~o.ok THEN Returns(FALSE)
  ELSE Returns(TRUE)

\* Faulty variant of getStatus: the response status is not looked at.
apiGetStatusIgnoresStatus(o) ==
  IF ~o.net \/ ~o.json THEN Returns(ZeroStatus)
  ELSE Returns(o.body)

apiGetStatus(o) ==
  IF ~o.net \/ ~o.ok \/ ~o.json THEN Returns(ZeroStatus)
  ELSE Returns(o.body)

apiGetTasks(o) ==
  IF ~o.net \/ ~o.ok \/ ~o.json THEN Returns(<<>>)
  ELSE Returns(o.body)

\* Faulty variant of submitTask: a failure is swallowed like the other calls'.
apiSubmitTaskSwallows(o) == Returns(o.body)

apiSubmitTask(o) ==
  IF ~o.net THEN Throws(o.body, o.message)
  ELSE IF ~o.ok
    THEN IF o.json THEN Throws(o.body, OrElse(o.message, "Failed to submit task"))
         ELSE Throws(o.body, o.message)
  ELSE IF ~o.json THEN Throws(o.body, o.message)
  ELSE Returns(o.body)

(***************************************************************************)
(* Requests of the task view awaiting their response.  `live` tells        *)
(* whether the component instance that issued the request is still         *)
(* mounted: no request is ever cancelled, but the state setters of an      *)
(* unmounted instance do nothing.  `ds` (history) marks a getTasks request *)
(* sent while the latest submission was awaiting its response.             *)
(***************************************************************************)
Req(op, live, ds) == [op |-> op, live |-> live, ds |-> ds]

ReqKinds ==
  { Req("getStatus", l, FALSE) : l \in BOOLEAN }
    \cup { Req("getTasks", l, d) : l \in BOOLEAN, d \in BOOLEAN }
    \cup { Req("submitTask", l, FALSE) : l \in BOOLEAN }

EmptyBag == [k \in ReqKinds |-> 0]
Add(bag, k) == [bag EXCEPT ![k] = @ + 1]
Remove(bag, k) == [bag EXCEPT ![k] = @ - 1]

RECURSIVE SumOver(_, _)
SumOver(bag, ks) ==
  IF ks = {} THEN 0
  ELSE LET k == CHOOSE x \in ks : TRUE
       IN  bag[k] + SumOver(bag, ks \ {k})

Total(bag) == SumOver(bag, ReqKinds)
Count(bag, op) == SumOver(bag, {k \in ReqKinds : k.op = op})

\* The issuing instance is torn down: its requests stay in flight, orphaned.
Orphan(bag) ==
  [k \in ReqKinds |->
     IF k.live THEN 0
     ELSE bag[k] + bag[Req(k.op, TRUE, k.ds)]]

\* A new submission starts: no getTasks request in flight was sent during it.
ClearDs(bag) ==
  [k \in ReqKinds |->
     IF k.op # "getTasks" THEN bag[k]
     ELSE IF k.ds THEN 0
     ELSE bag[k] + bag[Req(k.op, k.live, TRUE)]]

NoOptimistic == [task |-> <<>>, polledDuring |-> FALSE, polledAfter |-> FALSE]

\* History of the last handler: its name, the remote calls it issued, whether
\* the apiService call it awaited threw, and what it was given.
Did(op, net, threw, arg) == [op |-> op, net |-> net, threw |-> threw, arg |-> arg]

\* What the history keeps of a settled request: the request, whether the call
\* failed (network error or non-2xx), and a value the properties read (the token or
\* task answered, the value a failed poll call returned).
Settled(k, o, body) == [req |-> k, failed |-> Failed(o), body |-> body]
NoReq == Req("none", FALSE, FALSE)

(***************************************************************************)
(* Routing (TaskSubmissionPage.tsx, second part: ProtectedRoute,           *)
(* AppRoutes) and the derived authentication flag.                         *)
(***************************************************************************)
\* !!userToken: null and the empty string are falsy
IsAuthenticated(token) == token \notin {Null, ""}

isAuthenticated == IsAuthenticated(userToken)

\* What the protected route renders: the task view at "/", or a redirect.
ProtectedRoute(auth) == IF auth THEN "/" ELSE "/login"

\* The route shown for a requested location.
AppRoutes(p, auth) ==
  IF p = "/login" THEN "/login"
  ELSE ProtectedRoute(auth)      \* "/" itself, and "*" redirected to "/"

Mounted == path = "/"

(***************************************************************************)
(* The task view's life cycle.  The polling effect (lines 42-65) depends   *)
(* on [isAuthenticated, logout, navigate]; `logout` is a new function on   *)
(* every AuthProvider render, so the effect is cleaned up and run again    *)
(* whenever the provider re-renders while the view stays mounted.          *)
(***************************************************************************)
\* The effect body: one fetchStatusAndTasks() call, then setInterval.
PollEffect(bag) == Add(bag, Req("getStatus", TRUE, FALSE))

\* Faulty variant of the teardown: the effect has no cleanup.
ViewUnmountKeepsInterval ==
  /\ code' = <<>>
  /\ file' = <<>>
  /\ isSubmitting' = FALSE
  /\ error' = Null
  /\ phoneStatus' = <<>>
  /\ userTasks' = <<>>
  /\ intervalId' = intervalId
  /\ inflight' = Orphan(inflight)
  /\ optimistic' = NoOptimistic

ViewUnmount ==
  /\ code' = <<>>
  /\ file' = <<>>
  /\ isSubmitting' = FALSE
  /\ error' = Null
  /\ phoneStatus' = <<>>
  /\ userTasks' = <<>>
  /\ intervalId' = FALSE          \* effect cleanup: clearInterval
  /\ inflight' = Orphan(inflight)
  /\ optimistic' = NoOptimistic

ViewMount ==
  /\ Total(inflight) < MaxInFlight
  /\ intervalId' = TRUE
  /\ inflight' = PollEffect(inflight)
  /\ UNCHANGED <<code, file, isSubmitting, error, phoneStatus, userTasks, optimistic>>

ViewEffectRerun ==
  /\ Total(inflight) < MaxInFlight
  /\ intervalId' = TRUE           \* clearInterval, then a new setInterval
  /\ inflight' = PollEffect(inflight)
  /\ UNCHANGED <<code, file, isSubmitting, error, phoneStatus, userTasks, optimistic>>

\* Whether rendering location p with flag auth starts a poll.
StartsPoll(p, auth, rerendered) ==
  /\ AppRoutes(p, auth) = "/"
  /\ (~Mounted \/ rerendered)

\* The render that follows a handler: the location requested is p, the new
\* authentication flag is auth, `rerendered` tells whether AuthProvider's
\* state changed.
Render(p, auth, rerendered) ==
  /\ path' = AppRoutes(p, auth)
  /\ IF Mounted /\ path' # "/" THEN ViewUnmount
     ELSE IF ~Mounted /\ path' = "/" THEN ViewMount
     ELSE IF Mounted /\ rerendered THEN ViewEffectRerun
     ELSE UNCHANGED viewVars

PollNet(p, auth, rerendered) ==
  IF StartsPoll(p, auth, rerendered) THEN {"getStatus"} ELSE {}

(***************************************************************************)
(* AuthContext.tsx                                                         *)
(***************************************************************************)
\* Lines 31-54, the continuation after `await apiService.validateToken()`.
\* The call itself was made when the provider mounted (see Init).
validateTokenDone(o) ==
  /\ validating # Null
  /\ validating' = Null
  /\ LET result == apiValidateToken(validating, o)
     IN  /\ IF result.threw \/ ~result.value
              THEN /\ localStorage' = Null
                   /\ userToken' = Null
                   /\ tokenOrigin' = "none"
              ELSE UNCHANGED <<localStorage, userToken, tokenOrigin>>
         /\ last' = Did("validateToken", PollNet(path, IsAuthenticated(userToken'),
                                                 userToken' # userToken),
                        result.threw, Settled(NoReq, o, Null))
  /\ UNCHANGED <<isLoading, logins>>
  /\ Render(path, IsAuthenticated(userToken'), userToken' # userToken)

\* Lines 56-60: login() up to its await; the Login view at /login calls it.
loginStart ==
  /\ path = "/login"
  /\ logins < MaxLogins
  /\ logins' = logins + 1
  /\ isLoading' = TRUE
  /\ last' = Did("loginStart", {"login"}, FALSE, <<>>)
  /\ UNCHANGED <<localStorage, userToken, validating, tokenOrigin>>
  /\ Render(path, isAuthenticated, isLoading' # isLoading)

\* Lines 60-74: the continuation of login() after the await.
loginDone(o) ==
  /\ logins > 0
  /\ logins' = logins - 1
  /\ isLoading' = FALSE
  /\ LET result == apiLogin(o)
         returned == ~result.threw /\ result.value.success
     IN  /\ IF returned
              THEN /\ localStorage' = result.value.token
                   /\ userToken' = result.value.token
                   /\ tokenOrigin' = "login"
              ELSE UNCHANGED <<localStorage, userToken, tokenOrigin>>
         /\ last' = Did("login",
                        PollNet(path, IsAuthenticated(userToken'),
                                userToken' # userToken \/ isLoading' # isLoading),
                        result.threw,
                        [req |-> NoReq, failed |-> ~Reported(o),
                         body |-> o.body.token, returned |-> returned])
  /\ UNCHANGED validating
  /\ Render(path, IsAuthenticated(userToken'),
            userToken' # userToken \/ isLoading' # isLoading)

\* Faulty variant of logout: the context state is cleared, the store is not.
logoutKeepsStoredToken ==
  /\ localStorage' = localStorage
  /\ userToken' = Null
  /\ tokenOrigin' = "none"
  /\ last' = Did("logout", PollNet(path, IsAuthenticated(userToken'),
                                   userToken' # userToken), FALSE, <<>>)
  /\ UNCHANGED <<isLoading, validating, logins>>
  /\ Render(path, IsAuthenticated(userToken'), userToken' # userToken)

\* Lines 77-80.  handleLogout (TaskSubmissionPage.tsx 144-147) calls it and
\* then navigates to /login, which is where the route guard leads anyway.
logout ==
  /\ localStorage' = Null
  /\ userToken' = Null
  /\ tokenOrigin' = "none"
  /\ last' = Did("logout", PollNet(path, IsAuthenticated(userToken'),
                                   userToken' # userToken), FALSE, <<>>)
  /\ UNCHANGED <<isLoading, validating, logins>>
  /\ Render(path, IsAuthenticated(userToken'), userToken' # userToken)

\* A navigation to location p (the address bar, a link, navigate()).
navigate(p) ==
  /\ last' = Did("navigate", PollNet(p, isAuthenticated, FALSE), FALSE, <<>>)
  /\ UNCHANGED authVars
  /\ Render(p, isAuthenticated, FALSE)

(***************************************************************************)
(* TaskSubmissionPage.tsx: the polling loop (lines 42-65).                 *)
(***************************************************************************)
ConnectError == "Failed to connect to the service. Please try again later."

\* Line 63: the interval fires and calls fetchStatusAndTasks().
tick ==
  /\ intervalId
  /\ Total(inflight) < MaxInFlight
  /\ inflight' = PollEffect(inflight)
  /\ last' = Did("tick", {"getStatus"}, FALSE, <<>>)
  /\ UNCHANGED <<code, file, isSubmitting, error, phoneStatus, userTasks,
                 intervalId, optimistic>>
  /\ UNCHANGED <<authVars, path>>

\* Lines 48-52: getStatus() settles; the state is set and getTasks() called.
getStatusDone(k, o) ==
  /\ k.op = "getStatus"
  /\ inflight[k] > 0
  /\ LET result == apiGetStatus(o)
     IN  /\ IF result.threw
              THEN /\ inflight' = Remove(inflight, k)
                   /\ error' = IF k.live THEN ConnectError ELSE error
                   /\ UNCHANGED phoneStatus
              ELSE /\ inflight' = Add(Remove(inflight, k),
                                      Req("getTasks", k.live, k.live /\ isSubmitting))
                   /\ phoneStatus' = IF k.live THEN <<result.value>> ELSE phoneStatus
                   /\ UNCHANGED error
          /\ last' = Did("getStatus", IF result.threw THEN {} ELSE {"getTasks"},
                        result.threw,
                        Settled(k, o, IF Failed(o) THEN <<result.value>> ELSE <<>>))
  /\ UNCHANGED <<code, file, isSubmitting, userTasks, intervalId, optimistic>>
  /\ UNCHANGED <<authVars, path>>

\* Lines 52-57: getTasks() settles; the whole list is replaced.
getTasksDone(k, o) ==
  /\ k.op = "getTasks"
  /\ inflight[k] > 0
  /\ inflight' = Remove(inflight, k)
  /\ LET result == apiGetTasks(o)
     IN  /\ IF result.threw
              THEN /\ error' = IF k.live THEN ConnectError ELSE error
                   /\ UNCHANGED <<userTasks, optimistic>>
              ELSE /\ userTasks' = IF k.live THEN result.value ELSE userTasks
                   /\ optimistic' =
                        IF ~k.live THEN optimistic
                        ELSE IF isSubmitting
                          THEN [optimistic EXCEPT !.polledDuring = TRUE]
                        ELSE IF optimistic.task # <<>>
                          THEN [optimistic EXCEPT !.polledAfter = TRUE]
                        ELSE optimistic
                   /\ UNCHANGED error
         /\ last' = Did("getTasks", {}, result.threw,
                        Settled(k, o, IF Failed(o) THEN <<result.value>> ELSE <<>>))
  /\ UNCHANGED <<code, file, isSubmitting, phoneStatus, intervalId>>
  /\ UNCHANGED <<authVars, path>>

(***************************************************************************)
(* TaskSubmissionPage.tsx: the form (lines 68-119).  Text is a sequence of *)
(* characters; a file is [size, type, name].                               *)
(***************************************************************************)
MAX_FILE_SIZE == 5 * 1024 * 1024

allowedTypes == {"text/javascript", "application/javascript", "application/json", "text/plain"}

SizeError == "File size exceeds the maximum limit of 5MB"
TypeError == "Please upload a JavaScript file (.js) or JSON data file"
EmptyError == "Please provide JavaScript code or attach a file"
SubmitError == "Failed to submit task. Please try again."

\* String.prototype.endsWith
EndsWith(s, suffix) ==
  /\ Len(s) >= Len(suffix)
  /\ SubSeq(s, Len(s) - Len(suffix) + 1, Len(s)) = suffix

WhiteSpace == {" ", "\n", "\t"}

\* String.prototype.trim
RECURSIVE TrimStart(_)
TrimStart(s) ==
  IF s # <<>> /\ Head(s) \in WhiteSpace THEN TrimStart(Tail(s)) ELSE s

RECURSIVE TrimEnd(_)
TrimEnd(s) ==
  IF s # <<>> /\ s[Len(s)] \in WhiteSpace THEN TrimEnd(SubSeq(s, 1, Len(s) - 1)) ELSE s

Trim(s) == TrimEnd(TrimStart(s))

File(size, type, name) == [size |-> size, type |-> type, name |-> name]

\* Faulty variant of the size test: the limit itself is refused.
TooLargeInclusive(f) == f.size >= MAX_FILE_SIZE

\* Line 72
TooLarge(f) == f.size > MAX_FILE_SIZE

\* Line 79
TypeRejected(f) == f.type \notin allowedTypes /\ ~EndsWith(f.name, <<".", "j", "s">>)

\* Faulty variant of the emptiness test: the code is not trimmed.
NothingToSubmitUntrimmed(c, f) == c = <<>> /\ f = <<>>

\* Line 92
NothingToSubmit(c, f) == Trim(c) = <<>> /\ f = <<>>

\* Faulty variants of the list update: the list is replaced; the task is appended.
PrependDropsRest(taskData, prev) == <<taskData>>
PrependAtEnd(taskData, prev) == prev \o <<taskData>>

\* Line 104: prev => [taskData, ...prev]
Prepend(taskData, prev) == <<taskData>> \o prev

\* Line 207: the textarea's onChange.
setCode(c) ==
  /\ Mounted
  /\ code' = c
  /\ last' = Did("setCode", {}, FALSE, <<>>)
  /\ UNCHANGED <<file, isSubmitting, error, phoneStatus, userTasks, intervalId,
                 inflight, optimistic>>
  /\ UNCHANGED <<authVars, path>>

\* Lines 68-86; sel is e.target.files: <<>> or <<selectedFile>>.
handleFileChange(sel) ==
  /\ Mounted
  /\ IF sel = <<>> THEN UNCHANGED <<file, error>>
     ELSE IF TooLarge(sel[1])
       THEN /\ error' = SizeError
            /\ UNCHANGED file
     ELSE IF TypeRejected(sel[1])
       THEN /\ error' = TypeError
            /\ UNCHANGED file
     ELSE /\ file' = sel
          /\ error' = Null
  /\ last' = Did("handleFileChange", {}, FALSE, sel)
  /\ UNCHANGED <<code, isSubmitting, phoneStatus, userTasks, intervalId,
                 inflight, optimistic>>
  /\ UNCHANGED <<authVars, path>>

\* Lines 89-102: handleSubmit up to its await.  The submit button is
\* disabled while isSubmitting (line 232).
handleSubmit ==
  /\ Mounted
  /\ ~isSubmitting
  /\ IF NothingToSubmit(code, file)
       THEN /\ error' = EmptyError
            /\ last' = Did("handleSubmit", {}, FALSE, FALSE)
            /\ UNCHANGED <<isSubmitting, inflight, optimistic>>
       ELSE /\ Total(inflight) < MaxInFlight
            /\ Len(userTasks) < MaxTasks
            /\ isSubmitting' = TRUE
            /\ error' = Null
            /\ inflight' = Add(ClearDs(inflight), Req("submitTask", TRUE, FALSE))
            /\ optimistic' = NoOptimistic
            /\ last' = Did("handleSubmit", {"submitTask"}, FALSE, TRUE)
  /\ UNCHANGED <<code, file, phoneStatus, userTasks, intervalId>>
  /\ UNCHANGED <<authVars, path>>

\* Lines 102-118: the continuation of handleSubmit after the await.
submitTaskDone(k, o) ==
  /\ k.op = "submitTask"
  /\ inflight[k] > 0
  /\ inflight' = Remove(inflight, k)
  /\ LET result == apiSubmitTask(o)
     IN  /\ IF ~k.live
              THEN UNCHANGED <<userTasks, code, file, error, isSubmitting, optimistic>>
            ELSE IF result.threw
              THEN /\ error' = OrElse(result.message, SubmitError)
                   /\ isSubmitting' = FALSE
                   /\ UNCHANGED <<userTasks, code, file, optimistic>>
            ELSE /\ userTasks' = Prepend(result.value, userTasks)
                 /\ code' = <<>>
                 /\ file' = <<>>
                 /\ isSubmitting' = FALSE
                 /\ optimistic' = [optimistic EXCEPT !.task = <<result.value>>]
                 /\ UNCHANGED error
         /\ last' = Did("submitTask", {}, result.threw, Settled(k, o, o.body))
  /\ UNCHANGED <<phoneStatus, intervalId>>
  /\ UNCHANGED <<authVars, path>>

(***************************************************************************)
(* Inputs and specifications.                                              *)
(***************************************************************************)
Codes == {<<>>, <<" ", "\n">>, <<" ", "x">>}

JsName  == <<"s", ".", "j", "s">>
CsvName == <<"d", ".", "c", "s", "v">>

\* Files offered to the form in the specification of the whole client.
SomeFiles == { <<File(10, "", JsName)>>,
               <<File(MAX_FILE_SIZE + 1, "text/plain", JsName)>>,
               <<File(10, "text/csv", CsvName)>> }

\* Files offered in the specification of the file input alone.
Sizes == {10, MAX_FILE_SIZE, MAX_FILE_SIZE + 1}
Types == allowedTypes \cup {"", "text/csv"}
Names == {JsName, CsvName, <<"j", "s">>, <<"a", ".", "j", "s", "x">>}
AllFiles == {<<>>} \cup { <<File(sz, ty, nm)>> : sz \in Sizes, ty \in Types, nm \in Names }

Locations == {"/", "/login", "*"}

Init ==
  /\ localStorage \in Tokens \cup {Null}
  /\ userToken = localStorage               \* useState(localStorage.getItem(..))
  /\ isLoading = FALSE
  /\ validating = localStorage              \* the effect's validateToken() call
  /\ logins = 0
  /\ path \in {AppRoutes(p, IsAuthenticated(userToken)) : p \in Locations}
  /\ code = <<>>
  /\ file = <<>>
  /\ isSubmitting = FALSE
  /\ error = Null
  /\ phoneStatus = <<>>
  /\ userTasks = <<>>
  /\ intervalId = (path = "/")
  /\ inflight = IF path = "/" THEN PollEffect(EmptyBag) ELSE EmptyBag
  /\ optimistic = NoOptimistic
  /\ tokenOrigin = (IF localStorage = Null THEN "none" ELSE "stored")
  /\ last = Did("init", IF path = "/" THEN {"getStatus"} ELSE {}, FALSE, <<>>)

\* The session, the routes and the polling loop: the form is left alone.
NextAuth ==
  \/ \E o \in ValidateOutcomes : validateTokenDone(o)
  \/ loginStart
  \/ \E o \in LoginOutcomes : loginDone(o)
  \/ logout
  \/ \E p \in Locations : navigate(p)
  \/ tick
  \/ \E k \in ReqKinds, o \in StatusOutcomes : getStatusDone(k, o)
  \/ \E k \in ReqKinds, o \in TasksOutcomes : getTasksDone(k, o)

Spec == Init /\ [][NextAuth]_vars

\* One visit of the task view, from its mount to its teardown by logout: the
\* form, the submission and the polling loop.
NextView ==
  \/ logout
  \/ tick
  \/ \E k \in ReqKinds, o \in StatusOutcomes : getStatusDone(k, o)
  \/ \E k \in ReqKinds, o \in TasksOutcomes : getTasksDone(k, o)
  \/ \E c \in Codes : setCode(c)
  \/ \E sel \in SomeFiles : handleFileChange(sel)
  \/ handleSubmit
  \/ \E k \in ReqKinds, o \in SubmitOutcomes : submitTaskDone(k, o)

SpecView == Init /\ [][NextView]_vars

\* The five remote calls and the handlers that await them.
NextCalls ==
  \/ \E o \in ValidateOutcomes : validateTokenDone(o)
  \/ loginStart
  \/ \E o \in LoginOutcomes : loginDone(o)
  \/ logout
  \/ \E k \in ReqKinds, o \in StatusOutcomes : getStatusDone(k, o)
  \/ \E k \in ReqKinds, o \in TasksOutcomes : getTasksDone(k, o)
  \/ \E c \in Codes : setCode(c)
  \/ handleSubmit
  \/ \E k \in ReqKinds, o \in SubmitOutcomes : submitTaskDone(k, o)

SpecCalls == Init /\ [][NextCalls]_vars

\* The file input, with every combination of size, type and name.
NextFile ==
  \/ \E sel \in AllFiles : handleFileChange(sel)

SpecFile == Init /\ [][NextFile]_vars

(***************************************************************************)
(* Properties.                                                             *)
(***************************************************************************)
\* The remote calls in flight, per operation.
Pending(op) ==
  IF op = "login" THEN logins
  ELSE IF op = "validateToken" THEN (IF validating = Null THEN 0 ELSE 1)
  ELSE Count(inflight, op)

Operations == {"login", "validateToken", "getStatus", "getTasks", "submitTask"}

\* C1: after logout(), from any state, the Session Store holds no token, the
\* context token is null, isAuthenticated is false, logout issued no remote
\* call, and the protected route renders the redirect to /login, not the task
\* view, for every location that is requested next.
C1_LogoutClearsSession ==
  [][last'.op = "logout" =>
       /\ localStorage' = Null
       /\ userToken' = Null
       /\ ~isAuthenticated'
       /\ last'.net = {}
       /\ \A op \in Operations : Pending(op)' = Pending(op)
       /\ ProtectedRoute(isAuthenticated') = "/login"
       /\ path' = "/login"
       /\ \A p \in Locations : AppRoutes(p, isAuthenticated') = "/login"]_vars

\* Logout from the mounted task view while its first poll was in flight.
C1_Witness ==
  /\ last.op = "logout"
  /\ localStorage = Null
  /\ path = "/login"
  /\ inflight[Req("getStatus", FALSE, FALSE)] > 0

\* C2: a context initialised with a stored token is authenticated at once and
\* its validateToken call is in flight; when that call completes with an
\* invalid result (network error or non-OK response) the token is removed from
\* the Session Store and the context and isAuthenticated is false; when the
\* result is valid the token and the authenticated state are left as they were.
C2_StartupValidation ==
  /\ (localStorage # Null => isAuthenticated /\ userToken = localStorage
                              /\ validating = localStorage)
  /\ [][last'.op = "validateToken" =>
          IF last'.arg.failed
            THEN localStorage' = Null /\ userToken' = Null /\ ~isAuthenticated'
            ELSE UNCHANGED <<localStorage, userToken>>]_vars

\* The startup validation failed while the task view was mounted.
C2_Witness ==
  /\ last.op = "validateToken"
  /\ last.arg.failed
  /\ localStorage = Null
  /\ userToken = Null
  /\ Total(inflight) > 0

\* C3: login() returns true exactly when the remote service reports success;
\* then the token answered is in the Session Store and in the context and
\* isAuthenticated is true; on every failure it returns false and the Session
\* Store and the context token are left as they were.
C3_LoginResult ==
  [][last'.op = "login" =>
       /\ last'.arg.returned <=> ~last'.arg.failed
       /\ last'.arg.returned =>
            /\ localStorage' = last'.arg.body
            /\ userToken' = last'.arg.body
            /\ isAuthenticated'
       /\ ~last'.arg.returned => UNCHANGED <<localStorage, userToken>>]_vars

\* A successful login that replaced the token the session started with.
C3_Witness ==
  /\ last.op = "login"
  /\ last.arg.returned
  /\ userToken = "t2"
  /\ localStorage = "t2"
  /\ validating = "t1"

C5_OnlySubmitThrows ==
  [][/\ last'.op = "submitTask" /\ last'.arg.failed => last'.threw
     /\ last'.op = "submitTask" /\ last'.arg.failed /\ last'.arg.req.live =>
          /\ error' \notin {Null, ""}
          /\ userTasks' = userTasks
          /\ ~isSubmitting'
     /\ last'.op \in {"login", "validateToken", "getStatus", "getTasks"} => ~last'.threw
     /\ last'.threw => last'.op = "submitTask"]_vars

\* A failed submission left a polled, non-empty list in place under an error.
C5_Witness ==
  /\ last.op = "submitTask"
  /\ last.arg.failed
  /\ last.arg.req.live
  /\ last.threw
  /\ error = "Quota exceeded"
  /\ userTasks # <<>>

\* C6: for every failed poll call (network error or non-2xx response) the
\* caller gets the fixed fallback and no exception: getStatus returns exactly
\* {availablePhones: 0, busyPhones: 0, averageProcessingTime: 0}, getTasks
\* the empty list; a mounted view shows them.
C6_PollFallbacks ==
  /\ last.op = "getStatus" /\ last.arg.failed =>
       /\ ~last.threw
       /\ last.arg.body =
            <<[availablePhones |-> 0, busyPhones |-> 0, averageProcessingTime |-> 0]>>
       /\ last.arg.req.live => phoneStatus = last.arg.body
  /\ last.op = "getTasks" /\ last.arg.failed =>
       /\ ~last.threw
       /\ last.arg.body = << <<>> >>
       /\ last.arg.req.live => userTasks = <<>>

\* A failed getTasks call in a mounted view whose getStatus call had succeeded.
C6_Witness ==
  /\ last.op = "getTasks"
  /\ last.arg.failed
  /\ last.arg.req.live
  /\ userTasks = <<>>
  /\ phoneStatus = <<SomeStatus>>

\* C7: a selected file is accepted iff its size is at most 5,242,880 bytes and
\* its type is one of the four allowed or its name ends in ".js"; an accepted
\* file becomes the selected file and clears the error; a rejected file sets
\* an error, leaves the selected file as it was and issues no remote call.
C7_FileSelection ==
  [][last'.op = "handleFileChange" /\ last'.arg # <<>> =>
       LET f == last'.arg[1]
           n == Len(f.name)
           accepted ==
             /\ f.size <= 5242880
             /\ \/ f.type \in {"text/javascript", "application/javascript",
                               "application/json", "text/plain"}
                \/ (n >= 3 /\ f.name[n - 2] = "." /\ f.name[n - 1] = "j" /\ f.name[n] = "s")
       IN  IF accepted
             THEN file' = <<f>> /\ error' = Null
             ELSE /\ error' \notin {Null, ""}
                  /\ file' = file
                  /\ last'.net = {}
                  /\ \A op \in Operations : Pending(op)' = Pending(op)]_vars

\* A file was rejected while another one was selected.
C7_Witness ==
  /\ last.op = "handleFileChange"
  /\ last.arg # <<>>
  /\ file # <<>>
  /\ file # last.arg
  /\ file[1].size = 5242880
  /\ error # Null

\* C8: submitting with empty or all-whitespace code and no file sets an error,
\* issues no remote call and leaves the task list, the form fields and
\* isSubmitting as they were.
C8_EmptySubmission ==
  [][/\ last'.op = "handleSubmit"
     /\ \A i \in 1..Len(code) : code[i] \in {" ", "\n", "\t"}
     /\ file = <<>>
     => /\ error' \notin {Null, ""}
        /\ last'.net = {}
        /\ \A op \in Operations : Pending(op)' = Pending(op)
        /\ UNCHANGED <<userTasks, code, file, isSubmitting>>]_vars

\* An all-whitespace submission was refused under a non-empty task list.
C8_Witness ==
  /\ last.op = "handleSubmit"
  /\ last.net = {}
  /\ code = <<" ", "\n">>
  /\ file = <<>>
  /\ error = EmptyError
  /\ userTasks # <<>>

\* Polls (fetchStatusAndTasks calls) started by a step: each one issues a
\* getStatus request; a getStatus continuation takes one out of flight.
PollsStarted ==
  Pending("getStatus")' - Pending("getStatus")
    + (IF last'.op = "getStatus" THEN 1 ELSE 0)

\* C9: polling runs only while the task view is mounted and authenticated:
\* the interval is set exactly while the view is mounted, a mounted view is
\* authenticated, one poll is started when the view mounts and one on each
\* tick, a poll is started only in a mounted, authenticated view, and once
\* the view is torn down the interval is cleared and no poll is started.
C9_PollingLifetime ==
  /\ (Mounted => isAuthenticated /\ intervalId /\ last.net = {"getStatus"})
  /\ (~Mounted => ~intervalId)
  /\ [][/\ intervalId' <=> Mounted'
        /\ Mounted' => isAuthenticated'
        /\ PollsStarted \in {0, 1}
        /\ PollsStarted = 1 => Mounted' /\ isAuthenticated' /\ "getStatus" \in last'.net
        /\ ~Mounted /\ Mounted' => PollsStarted = 1
        /\ last'.op = "tick" => Mounted /\ PollsStarted = 1
        /\ ~Mounted' => PollsStarted = 0 /\ ~intervalId']_vars

\* After a teardown an orphaned poll went on to getTasks; no poll was started.
C9_Witness ==
  /\ ~Mounted
  /\ ~intervalId
  /\ last.op = "getStatus"
  /\ ~last.arg.req.live
  /\ inflight[Req("getTasks", FALSE, FALSE)] > 0
  /\ Pending("getStatus") = 0

C11_LoginTokenSurvivesValidation ==
  [][tokenOrigin = "login" /\ last'.op = "validateToken" =>
       /\ localStorage' = localStorage
       /\ userToken' = userToken]_vars

=============================================================================
